---------------------------- MODULE Spec2Model ----------------------------
(***************************************************************************)
(* A model of the rate-limited execution core of rapid-prototype-llm:      *)
(*   - SyncRateLimiter.waitForRateLimit   (services/rateLimiter)           *)
(*   - AsyncRateLimiter over Bottleneck   (services/rateLimiter)           *)
(*   - PromptUtils.isParsingError / retryParsingOperation (llmProviders)   *)
(*   - OpenRouterPromptRunner.runTask's use of it     (llmProviders)      *)
(* Each component has its own specification; the variables of the other    *)
(* components stay at their initial values.  Time is a discrete clock in   *)
(* milliseconds (Date.now()).                                              *)
(***************************************************************************)
EXTENDS Integers, Sequences, FiniteSets, TLC

VARIABLES
    \* ---- SyncRateLimiter ----
    syncConfig,       \* this.config
    requestTimes,     \* this.requestTimes
    lastRequestTime,  \* this.lastRequestTime
    clock,            \* Date.now()
    callPc,           \* per caller: position inside waitForRateLimit
    callNow,          \* per caller: the local `now` read at line 25
    callWake,         \* per caller: the time the pending setTimeout is due
    callWaited,       \* per caller: this call went through the window wait
    callSuspended,    \* per caller: history: sum of the setTimeout delays of its call
    callsDone,        \* number of calls that returned
    admitted,         \* history: the lastRequestTime values recorded, in order
    admittedWaited,   \* history: per admission, whether its call waited for the window
    callOrdinal,      \* history: per caller, the rank of its call among all calls
    admittedCalls,    \* history: per admission, the rank of the call admitted
    \* ---- PromptUtils.retryParsingOperation ----
    taskSetting,            \* runTask: config?.retryParsingErrors ("none": no runTask)
    retryOnlyParsingErrors, \* parameter
    maxRetries,             \* parameter
    delayMs,                \* parameter
    attempt,                \* loop variable
    retryPc,                \* "ready" | "awaiting" | "sleeping" | "resolved" | "rejected"
    thrown,                 \* history: the errors the operation threw, in order
    invocations,            \* history: number of calls of operation()
    sleeps,                 \* history: the delays of the setTimeout suspensions, in order
    raised,                 \* the error retryParsingOperation rejected with
    \* ---- AsyncRateLimiter ----
    asyncConfig,      \* the AsyncRateLimiterConfig passed to the constructor
    ctorStatus,       \* "pending" | "threw" | "ready": outcome of the constructor
    limiter,          \* this.limiter: << >> or <<the Bottleneck instance state>>
    asyncNow,         \* Date.now(), counted from the constructor call
    queue,            \* the limiter's queue of job ids, in submission order
    jobs,             \* per job id: state, argument, execution time, settlement
    opOutcome,        \* per job id: how the caller's operation ends once invoked
    scheduleCalls,    \* number of calls of schedule() so far
    items,            \* processItems: the input array
    batchPc,          \* processItems: "idle" | "awaiting" | "returned"
    batchJobs,        \* processItems: the job scheduled for each index
    batchResult,      \* processItems: the object it resolved to
    dispatchLog,      \* history: <<job, time>> of every operation invocation
    stopPc,           \* stop(): "idle" | "draining" | "stopped"
    settleLog,        \* history: processItems' jobs in the order their operations settled
    refillCount       \* history: number of reservoir refills so far

syncVars  == <<syncConfig, requestTimes, lastRequestTime, clock, callPc, callNow,
               callWake, callWaited, callSuspended, callsDone, admitted,
               admittedWaited, callOrdinal, admittedCalls>>
retryVars == <<taskSetting, retryOnlyParsingErrors, maxRetries, delayMs, attempt,
               retryPc, thrown, invocations, sleeps, raised>>
asyncVars == <<asyncConfig, ctorStatus, limiter, asyncNow, queue, jobs,
               opOutcome, scheduleCalls, items, batchPc, batchJobs, batchResult, dispatchLog,
               stopPc, settleLog, refillCount>>
vars      == <<syncVars, retryVars, asyncVars>>
otherThanSync  == <<retryVars, asyncVars>>
otherThanRetry == <<syncVars, asyncVars>>
otherThanAsync == <<syncVars, retryVars>>

(***************************************************************************)
(* Bounds of the model.                                                    *)
(***************************************************************************)
MaxMinInterval == 2
MaxWindow      == 3
MaxPerWindow   == 2
MaxBuffer      == 1
MaxCalls       == 4
MaxElapsed     == 6
NumCallers     == 2
MaxReadGap     == 1
MaxRetriesArg  == 3
MaxDelayMs     == 1
MaxConcurrentArg == 2
MaxIntervalCap == 2
MaxInterval    == 2
MaxMinTime     == 2
MaxJobs        == 3
MaxAsyncTime   == 3

Min(a, b) == IF a < b THEN a ELSE b
Max(a, b) == IF a > b THEN a ELSE b

(***************************************************************************)
(*                          SyncRateLimiter                                *)
(***************************************************************************)
Callers == 1..NumCallers

\* Date.now() when the limiter is created: far from the epoch, so the first
\* call's `now - lastRequestTime` (lastRequestTime = 0) exceeds every interval.
StartTime == MaxMinInterval + MaxWindow + MaxBuffer + 1
MaxClock  == StartTime + MaxElapsed

SyncConfigs ==
    [minRequestInterval   : 0..MaxMinInterval,
     rateLimitWindow      : 1..MaxWindow,
     maxRequestsPerWindow : 1..MaxPerWindow,
     rateLimitResetBuffer : 0..MaxBuffer]

\* line 28-30: requestTimes.filter(time => now - time < rateLimitWindow)
PruneRequests(times, now, cfg) ==
    SelectSeq(times, LAMBDA time : now - time < cfg.rateLimitWindow)

\* line 33: requestTimes.length >= maxRequestsPerWindow
WindowFull(times, cfg) == Len(times) >= cfg.maxRequestsPerWindow

\* line 34-35: rateLimitWindow - (now - oldestRequest) + rateLimitResetBuffer
WaitTime(times, now, cfg) ==
    cfg.rateLimitWindow - (now - times[1]) + cfg.rateLimitResetBuffer

\* mutant of TimeSinceLastRequest: the operands are swapped
TimeSinceLastRequestSwapped(now, last) == last - now

\* line 44: now - lastRequestTime
TimeSinceLastRequest(now, last) == now - last

\* line 45: timeSinceLastRequest < minRequestInterval
MustWaitInterval(now, last, cfg) ==
    TimeSinceLastRequest(now, last) < cfg.minRequestInterval

\* line 47: minRequestInterval - timeSinceLastRequest
IntervalWait(now, last, cfg) ==
    cfg.minRequestInterval - TimeSinceLastRequest(now, last)

\* mutant of ClearedLog: the log is kept as it is after the window wait
LogKeptAfterWait(times) == times

\* line 40: this.requestTimes = []
ClearedLog(times) == << >>

SyncInit ==
    /\ syncConfig \in SyncConfigs
    /\ requestTimes = << >>
    /\ lastRequestTime = 0
    /\ clock = StartTime
    /\ callPc = [c \in Callers |-> "idle"]
    /\ callNow = [c \in Callers |-> 0]
    /\ callWake = [c \in Callers |-> 0]
    /\ callWaited = [c \in Callers |-> FALSE]
    /\ callSuspended = [c \in Callers |-> 0]
    /\ callsDone = 0
    /\ admitted = << >>
    /\ admittedWaited = << >>
    /\ callOrdinal = [c \in Callers |-> 0]
    /\ admittedCalls = << >>

\* lines 51-52: lastRequestTime = Date.now(); requestTimes.push(lastRequestTime)
\* `stamp` is the value this second read of the clock returns
Admit(c, times, waitedWindow, ordinal, stamp) ==
    /\ clock' = stamp
    /\ admittedCalls' = Append(admittedCalls, ordinal)
    /\ lastRequestTime' = stamp
    /\ requestTimes' = Append(times, stamp)
    /\ admitted' = Append(admitted, stamp)
    /\ admittedWaited' = Append(admittedWaited, waitedWindow)
    /\ callPc' = [callPc EXCEPT ![c] = "idle"]
    /\ callsDone' = callsDone + 1

\* lines 44-52, run without suspension after the window check (or after the
\* window wait): `now` is the value read at line 25.
IntervalCheck(c, now, times, waitedWindow, suspended, ordinal, stamp) ==
    IF MustWaitInterval(now, lastRequestTime, syncConfig)
    THEN /\ callPc' = [callPc EXCEPT ![c] = "intervalWait"]
         /\ callWake' = [callWake EXCEPT ![c] =
                            clock + IntervalWait(now, lastRequestTime, syncConfig)]
         /\ callSuspended' = [callSuspended EXCEPT ![c] =
                suspended + IntervalWait(now, lastRequestTime, syncConfig)]
         /\ requestTimes' = times
         /\ UNCHANGED <<lastRequestTime, admitted, admittedWaited, callsDone,
                        admittedCalls, clock>>
    ELSE /\ Admit(c, times, waitedWindow, ordinal, stamp)
         /\ callSuspended' = [callSuspended EXCEPT ![c] = suspended]
         /\ UNCHANGED callWake

\* the calls made so far: those that returned and those in progress
CallsMade == callsDone + Cardinality({d \in Callers : callPc[d] # "idle"})

\* the values Date.now() can return at line 51 when the call has not been
\* suspended since line 25 read `now`: the same millisecond or a later one
SecondRead(now) == now..Min(now + MaxReadGap, MaxClock)

\* lines 25-39 (and on to 52 when the window is not full)
EnterCall(c) ==
    /\ callPc[c] = "idle"
    /\ CallsMade < MaxCalls
    /\ callNow' = [callNow EXCEPT ![c] = clock]
    /\ callOrdinal' = [callOrdinal EXCEPT ![c] = CallsMade + 1]
    /\ LET pruned == PruneRequests(requestTimes, clock, syncConfig) IN
       IF WindowFull(pruned, syncConfig)
       THEN /\ requestTimes' = pruned
            /\ callPc' = [callPc EXCEPT ![c] = "windowWait"]
            /\ callWake' = [callWake EXCEPT ![c] =
                               clock + WaitTime(pruned, clock, syncConfig)]
            /\ callWaited' = [callWaited EXCEPT ![c] = TRUE]
            /\ callSuspended' = [callSuspended EXCEPT ![c] =
                                     WaitTime(pruned, clock, syncConfig)]
            /\ UNCHANGED <<lastRequestTime, admitted, admittedWaited, callsDone,
                           admittedCalls, clock>>
       ELSE /\ callWaited' = [callWaited EXCEPT ![c] = FALSE]
            /\ \E stamp \in SecondRead(clock) :
                  IntervalCheck(c, clock, pruned, FALSE, 0, CallsMade + 1, stamp)
    /\ UNCHANGED syncConfig

\* setTimeout counts on the event loop's monotonic clock while Date.now()
\* truncates the wall clock: a timer set at Date.now() = t for d ms fires
\* when Date.now() is t + d - 1 at the earliest, and at any later time
TimerEarlyMs == 1
TimerFired(c) == clock >= callWake[c] - TimerEarlyMs

\* lines 39-52: the window timer fired; the log is cleared
WakeWindow(c) ==
    /\ callPc[c] = "windowWait"
    /\ TimerFired(c)
    /\ IntervalCheck(c, callNow[c], ClearedLog(requestTimes), TRUE,
                     callSuspended[c], callOrdinal[c], clock)
    /\ UNCHANGED <<syncConfig, callNow, callWaited, callOrdinal>>

\* lines 46-52: the minimum-interval timer fired
WakeInterval(c) ==
    /\ callPc[c] = "intervalWait"
    /\ TimerFired(c)
    /\ Admit(c, requestTimes, callWaited[c], callOrdinal[c], clock)
    /\ UNCHANGED <<syncConfig, callNow, callWake, callWaited, callSuspended,
                   callOrdinal>>

\* one millisecond passes
SyncTick ==
    /\ clock < MaxClock
    /\ clock' = clock + 1
    /\ UNCHANGED <<syncConfig, requestTimes, lastRequestTime, callPc, callNow,
                   callWake, callWaited, callSuspended, callsDone, admitted,
                   admittedWaited, callOrdinal, admittedCalls>>

\* serialized use: a call starts only after the previous one returned
Serialized(c) == \A d \in Callers : callPc[d] = "idle"

SyncNext ==
    \/ \E c \in Callers : Serialized(c) /\ EnterCall(c) /\ UNCHANGED otherThanSync
    \/ \E c \in Callers : WakeWindow(c) /\ UNCHANGED otherThanSync
    \/ \E c \in Callers : WakeInterval(c) /\ UNCHANGED otherThanSync
    \/ SyncTick /\ UNCHANGED otherThanSync

\* The admissions that fall in the trailing window ending at admission i
\* (an admission at time t is in the window ending at T when T - t < window).
InTrailingWindow(i) ==
    {j \in 1..i : admitted[i] - admitted[j] < syncConfig.rateLimitWindow}

\* C1 (as claimed): under serialized calls no trailing window of length
\* rateLimitWindow holds more than maxRequestsPerWindow admissions.
C1_WindowNeverExceeded ==
    \A i \in 1..Len(admitted) :
        Cardinality(InTrailingWindow(i)) <= syncConfig.maxRequestsPerWindow

\* C3 (as claimed): two consecutive admissions, as recorded in
\* lastRequestTime, are at least minRequestInterval apart, whether or not the
\* later call waited for the window.
C3_MinIntervalRespected ==
    \A i \in 2..Len(admitted) :
        admitted[i] - admitted[i - 1] >= syncConfig.minRequestInterval

\* the callers suspended on a timer
Suspended == {c \in Callers : callPc[c] \in {"windowWait", "intervalWait"}}

\* C15 (as claimed): the time one call asks to be suspended for, window wait
\* plus minimum-interval wait, never exceeds rateLimitWindow +
\* rateLimitResetBuffer.
C15_Original ==
    \A c \in Callers :
        callSuspended[c] <= syncConfig.rateLimitWindow
                              + syncConfig.rateLimitResetBuffer

\* C15 (amended): under serialized calls a call is suspended on at most two
\* timers whose delays sum to at most rateLimitWindow + rateLimitResetBuffer
\* + minRequestInterval, and a suspended call whose timer is due can always
\* go on (there is no path on which it raises).
C15_WaitBounded ==
    \A c \in Callers :
        /\ callSuspended[c] >= 0
        /\ callSuspended[c] <= syncConfig.rateLimitWindow
                                 + syncConfig.rateLimitResetBuffer
                                 + syncConfig.minRequestInterval
        /\ (callPc[c] = "windowWait" /\ TimerFired(c))
              => ENABLED WakeWindow(c)
        /\ (callPc[c] = "intervalWait" /\ TimerFired(c))
              => ENABLED WakeInterval(c)
        /\ c \in Suspended =>
              callWake[c] <= clock + syncConfig.rateLimitWindow
                                   + syncConfig.rateLimitResetBuffer
                                   + syncConfig.minRequestInterval

\* C15 witness: a call returned after waiting for the window and then for
\* the minimum interval, rateLimitWindow + rateLimitResetBuffer +
\* minRequestInterval in all, more than the claimed bound.
C15_Witness ==
    \E c \in Callers :
        /\ callPc[c] = "idle"
        /\ callsDone >= 2
        /\ callWaited[c]
        /\ syncConfig.minRequestInterval > 0
        /\ callSuspended[c] = syncConfig.rateLimitWindow
                                 + syncConfig.rateLimitResetBuffer
                                 + syncConfig.minRequestInterval

\* no call is in progress and at least one has completed
BetweenCalls == callsDone >= 1 /\ \A c \in Callers : callPc[c] = "idle"

\* C27: after every completed call of a serialized sequence the log is in
\* non-decreasing time order, holds at most maxRequestsPerWindow entries and
\* ends with lastRequestTime; after a call that found the window full it
\* holds that call's admission and nothing else.
C27_LogShape ==
    BetweenCalls =>
        /\ \A i \in 2..Len(requestTimes) : requestTimes[i - 1] <= requestTimes[i]
        /\ Len(requestTimes) >= 1
        /\ Len(requestTimes) <= syncConfig.maxRequestsPerWindow
        /\ requestTimes[Len(requestTimes)] = lastRequestTime
        /\ lastRequestTime = admitted[Len(admitted)]
        /\ admittedWaited[Len(admitted)] => requestTimes = <<lastRequestTime>>

\* C27 witness: maxRequestsPerWindow = 2: two calls filled the log, the third
\* found the window full, waited, and left the log holding only its own
\* admission.
C27_Witness ==
    /\ BetweenCalls
    /\ syncConfig.maxRequestsPerWindow = 2
    /\ callsDone = 3
    /\ admittedWaited = <<FALSE, FALSE, TRUE>>
    /\ requestTimes = <<admitted[3]>>

\* overlapping use: a caller may enter while others are suspended; the
\* suspended calls resume in any order once their timers have fired
ConcurrentNext ==
    \/ \E c \in Callers : EnterCall(c) /\ UNCHANGED otherThanSync
    \/ \E c \in Callers : WakeWindow(c) /\ UNCHANGED otherThanSync
    \/ \E c \in Callers : WakeInterval(c) /\ UNCHANGED otherThanSync
    \/ SyncTick /\ UNCHANGED otherThanSync

\* the calls in progress
InProgress == {c \in Callers : callPc[c] # "idle"}

\* C23 (as claimed): with overlapping calls admissions are granted in the
\* order the calls were made: the admitted calls are in increasing rank and
\* no call still waiting was made before one already admitted.
C23_FifoAdmission ==
    /\ \A i \in 2..Len(admittedCalls) : admittedCalls[i - 1] < admittedCalls[i]
    /\ \A c \in InProgress :
          \A i \in 1..Len(admittedCalls) : admittedCalls[i] < callOrdinal[c]

\* C28 (as claimed): with overlapping calls any two admissions are still at
\* least minRequestInterval apart and the log never holds more than
\* maxRequestsPerWindow entries.
C28_SafeUnderOverlap ==
    /\ \A i \in 1..Len(admitted) : \A j \in (i + 1)..Len(admitted) :
          admitted[j] - admitted[i] >= syncConfig.minRequestInterval
    /\ Len(requestTimes) <= syncConfig.maxRequestsPerWindow

(***************************************************************************)
(*                 PromptUtils.retryParsingOperation                       *)
(***************************************************************************)
\* Thrown values: whether the value is an Error instance, its `name` property
\* (a string, as the sequence of its characters) and whether it carries the
\* marker NoObjectGeneratedError.isInstance looks for.
Chars_ZodError      == <<"Z","o","d","E","r","r","o","r">>
Chars_TimeoutError  == <<"T","i","m","e","o","u","t","E","r","r","o","r">>
Chars_HeadersTimeoutError == <<"H","e","a","d","e","r","s">> \o Chars_TimeoutError
Chars_TimeoutErrors == Chars_TimeoutError \o <<"s">>
Chars_Timeout       == <<"T","i","m","e","o","u","t">>
Chars_Error         == <<"E","r","r","o","r">>
Chars_zodError      == <<"z","o","d","E","r","r","o","r">>
Chars_NoObject      == <<"A","I","_","N","o","O","b","j","e","c","t">>
Chars_UnknownError  == <<"U","n","k","n","o","w","n"," ","e","r","r","o","r">>

ErrorNames == {Chars_ZodError, Chars_TimeoutError, Chars_HeadersTimeoutError,
               Chars_Timeout, Chars_Error, Chars_NoObject, Chars_zodError}

ErrorValues ==
    {[isError |-> TRUE,  name |-> Chars_ZodError,            marker |-> FALSE],
     [isError |-> TRUE,  name |-> Chars_NoObject,            marker |-> TRUE],
     [isError |-> TRUE,  name |-> Chars_HeadersTimeoutError, marker |-> FALSE],
     [isError |-> TRUE,  name |-> Chars_Timeout,             marker |-> FALSE],
     [isError |-> TRUE,  name |-> Chars_Error,               marker |-> FALSE],
     [isError |-> TRUE,  name |-> Chars_zodError,            marker |-> FALSE],
     [isError |-> FALSE, name |-> Chars_TimeoutError,        marker |-> FALSE],
     [isError |-> FALSE, name |-> Chars_ZodError,            marker |-> FALSE],
     [isError |-> FALSE, name |-> Chars_NoObject,            marker |-> TRUE]}

\* String.prototype.includes
Includes(s, sub) ==
    \E i \in 0..(Len(s) - Len(sub)) : SubSeq(s, i + 1, i + Len(sub)) = sub

\* mutant of ErrorNameOf: the name is read from any thrown value
ErrorNameOfAny(error) == error.name

\* line 345: error instanceof Error ? error.name : 'Unknown error'
ErrorNameOf(error) == IF error.isError THEN error.name ELSE Chars_UnknownError

\* lines 349-350
IsZodError(error) == error.isError /\ error.name = Chars_ZodError

\* line 353: NoObjectGeneratedError.isInstance(error)
IsNoObjectGeneratedError(error) == error.marker

\* line 355
IsTimeoutError(error) == Includes(ErrorNameOf(error), Chars_TimeoutError)

\* lines 342-368
IsParsingError(error) ==
    IsZodError(error) \/ IsNoObjectGeneratedError(error) \/ IsTimeoutError(error)

\* mutant of ShouldRetry: the restriction flag is ignored
ShouldRetryAlways(only, error) == TRUE

\* mutant of ShouldRetry: the classifier decides whatever the flag says
ShouldRetryClassifiedOnly(only, error) == IsParsingError(error)

\* line 387
ShouldRetry(only, error) == ~only \/ IsParsingError(error)

\* mutant of IsLastAttempt: one attempt too few
IsLastAttemptEarly(att, max) == att = max - 1

\* mutant of IsLastAttempt: one attempt too many
IsLastAttemptLate(att, max) == att = max + 1

\* line 389: attempt === maxRetries
IsLastAttempt(att, max) == att = max

\* mutant of LoopContinues: the bound is exclusive
LoopContinuesExclusive(att, max) == att < max

\* line 383: attempt <= maxRetries
LoopContinues(att, max) == att <= max

\* mutant of RetryDelay: the delay grows with the attempt number
RetryDelayGrowing(att, delay) == delay * att

\* line 395: setTimeout(resolve, delayMs)
RetryDelay(att, delay) == delay

\* line 398: new Error('Retry operation failed')
RetryFailedError ==
    [origin |-> "retryParsingOperation", attempt |-> 0,
     value |-> [isError |-> TRUE, name |-> Chars_Error, marker |-> FALSE]]

\* the error thrown by the operation's call number att
OperationError(att, error) ==
    [origin |-> "operation", attempt |-> att, value |-> error]

RetryInit ==
    /\ taskSetting = "none"
    /\ retryOnlyParsingErrors \in BOOLEAN
    /\ maxRetries \in (-1)..MaxRetriesArg
    /\ delayMs \in 0..MaxDelayMs
    /\ attempt = 1
    /\ retryPc = "ready"
    /\ thrown = << >>
    /\ invocations = 0
    /\ sleeps = << >>
    /\ raised = << >>

RetryIdle ==
    /\ taskSetting = "none"
    /\ retryOnlyParsingErrors = TRUE
    /\ maxRetries = 0
    /\ delayMs = 0
    /\ attempt = 0
    /\ retryPc = "unused"
    /\ thrown = << >>
    /\ invocations = 0
    /\ sleeps = << >>
    /\ raised = << >>

\* lines 383-385: the loop condition holds and operation() is called; the
\* function is suspended on `await` until the promise settles
InvokeOperation ==
    /\ retryPc = "ready"
    /\ LoopContinues(attempt, maxRetries)
    /\ invocations' = invocations + 1
    /\ retryPc' = "awaiting"
    /\ UNCHANGED <<taskSetting, retryOnlyParsingErrors, maxRetries, delayMs,
                   attempt, thrown, sleeps, raised>>

\* line 385: the promise of operation() fulfils and its value is returned
OperationFulfils ==
    /\ retryPc = "awaiting"
    /\ retryPc' = "resolved"
    /\ UNCHANGED <<taskSetting, retryOnlyParsingErrors, maxRetries, delayMs,
                   attempt, thrown, invocations, sleeps, raised>>

\* lines 385-395: the promise of operation() rejects with `error`; the catch
\* block either rethrows it or starts the delay
OperationThrows(error) ==
    /\ retryPc = "awaiting"
    /\ thrown' = Append(thrown, OperationError(attempt, error))
    /\ IF ~ShouldRetry(retryOnlyParsingErrors, error)
          \/ IsLastAttempt(attempt, maxRetries)
       THEN /\ retryPc' = "rejected"
            /\ raised' = <<OperationError(attempt, error)>>
            /\ UNCHANGED sleeps
       ELSE /\ retryPc' = "sleeping"
            /\ sleeps' = Append(sleeps, RetryDelay(attempt, delayMs))
            /\ UNCHANGED raised
    /\ UNCHANGED <<taskSetting, retryOnlyParsingErrors, maxRetries, delayMs, attempt,
                   invocations>>

\* line 395 then line 383: the delay elapsed, attempt++
RetryWake ==
    /\ retryPc = "sleeping"
    /\ attempt' = attempt + 1
    /\ retryPc' = "ready"
    /\ UNCHANGED <<taskSetting, retryOnlyParsingErrors, maxRetries, delayMs,
                   thrown, invocations, sleeps, raised>>

\* line 398: the loop ended without returning or throwing
LoopExhausted ==
    /\ retryPc = "ready"
    /\ ~LoopContinues(attempt, maxRetries)
    /\ retryPc' = "rejected"
    /\ raised' = <<RetryFailedError>>
    /\ UNCHANGED <<taskSetting, retryOnlyParsingErrors, maxRetries, delayMs,
                   attempt, thrown, invocations, sleeps>>

\* OpenRouterPromptRunner.runTask: the values config?.retryParsingErrors can
\* have (config itself may be missing)
TaskSettings == {"undefined", "null", "true", "false"}

\* mutant of RetryParsingErrorsOf: the default is false
RetryParsingErrorsDefaultOff(setting) == setting = "true"

\* line 215: config?.retryParsingErrors != undefined
\*             ? config?.retryParsingErrors : true
RetryParsingErrorsOf(setting) ==
    IF setting \in {"undefined", "null"} THEN TRUE ELSE setting = "true"

\* lines 379-380: the defaults of the parameters runTask does not pass
DefaultMaxRetries == 3
DefaultDelayMs    == 1000

\* lines 218-250: runTask calls retryParsingOperation(generation,
\* retryParsingErrors)
RunTaskInit ==
    /\ taskSetting \in TaskSettings
    /\ retryOnlyParsingErrors = RetryParsingErrorsOf(taskSetting)
    /\ maxRetries = DefaultMaxRetries
    /\ delayMs = DefaultDelayMs
    /\ attempt = 1
    /\ retryPc = "ready"
    /\ thrown = << >>
    /\ invocations = 0
    /\ sleeps = << >>
    /\ raised = << >>

RetryNext ==
    \/ InvokeOperation /\ UNCHANGED otherThanRetry
    \/ OperationFulfils /\ UNCHANGED otherThanRetry
    \/ \E error \in ErrorValues : OperationThrows(error) /\ UNCHANGED otherThanRetry
    \/ RetryWake /\ UNCHANGED otherThanRetry
    \/ LoopExhausted /\ UNCHANGED otherThanRetry

\* runTask: with maxRetries = 3 the loop never ends without returning or
\* throwing, so line 398 is not reached
RunTaskNext ==
    \/ InvokeOperation /\ UNCHANGED otherThanRetry
    \/ OperationFulfils /\ UNCHANGED otherThanRetry
    \/ \E error \in ErrorValues : OperationThrows(error) /\ UNCHANGED otherThanRetry
    \/ RetryWake /\ UNCHANGED otherThanRetry

SyncIdle ==
    /\ syncConfig = [minRequestInterval |-> 0, rateLimitWindow |-> 1,
                     maxRequestsPerWindow |-> 1, rateLimitResetBuffer |-> 0]
    /\ requestTimes = << >>
    /\ lastRequestTime = 0
    /\ clock = StartTime
    /\ callPc = [c \in Callers |-> "idle"]
    /\ callNow = [c \in Callers |-> 0]
    /\ callWake = [c \in Callers |-> 0]
    /\ callWaited = [c \in Callers |-> FALSE]
    /\ callSuspended = [c \in Callers |-> 0]
    /\ callsDone = 0
    /\ admitted = << >>
    /\ admittedWaited = << >>
    /\ callOrdinal = [c \in Callers |-> 0]
    /\ admittedCalls = << >>

\* the operation failed on every invocation, each time with a retryable error
AlwaysRetryableFailure ==
    /\ retryPc = "rejected"
    /\ \A i \in 1..Len(thrown) : IsParsingError(thrown[i].value)

\* C6 (as claimed): an operation that always fails with a retryable error is
\* invoked exactly maxRetries times and the call rejects with that error.
C6_Original ==
    (retryOnlyParsingErrors /\ AlwaysRetryableFailure) =>
        /\ invocations = maxRetries
        /\ Len(thrown) = invocations
        /\ raised = <<thrown[Len(thrown)]>>

\* C6 (amended): for maxRetries >= 1, an operation that always fails with a
\* retryable error is invoked exactly maxRetries times and the call rejects
\* with the error of the last invocation.
C6_RetryBound ==
    (retryOnlyParsingErrors /\ maxRetries >= 1 /\ AlwaysRetryableFailure) =>
        /\ invocations = maxRetries
        /\ Len(thrown) = maxRetries
        /\ raised = <<thrown[maxRetries]>>
        /\ raised[1].origin = "operation"

\* C6 witness: three retryable failures with maxRetries = 3, then rejection.
C6_Witness ==
    /\ retryOnlyParsingErrors
    /\ maxRetries = 3
    /\ AlwaysRetryableFailure
    /\ invocations = 3
    /\ raised = <<thrown[3]>>

\* C7: with the restriction on, a failure that is not retryable ends the call
\* at once: it is the last invocation, no delay follows it, the call rejects
\* with it; on the first call that means one invocation and no delay at all.
C7_NonRetryableShortCircuit ==
    retryOnlyParsingErrors =>
        \A i \in 1..Len(thrown) :
            ~IsParsingError(thrown[i].value) =>
                /\ i = Len(thrown)
                /\ invocations = i
                /\ Len(sleeps) = i - 1
                /\ retryPc = "rejected"
                /\ raised = <<thrown[i]>>

\* C7 witness: a non-retryable error on the first call, with retries left.
C7_Witness ==
    /\ retryOnlyParsingErrors
    /\ maxRetries >= 2
    /\ Len(thrown) = 1
    /\ ~IsParsingError(thrown[1].value)
    /\ invocations = 1
    /\ sleeps = << >>
    /\ retryPc = "rejected"

\* the failures after which the call is meant to give up: the one of the
\* final permitted attempt, and any non-retryable one when restricted
FinalFailure(i) ==
    \/ thrown[i].attempt = maxRetries
    \/ retryOnlyParsingErrors /\ ~IsParsingError(thrown[i].value)

\* C17 (as claimed): whenever the call rejects, the error raised is the one
\* thrown by the last invocation of the operation; and after a final failure
\* the call does reject, with that very error.
C17_Original ==
    /\ retryPc = "rejected" =>
          /\ Len(thrown) >= 1
          /\ raised = <<thrown[Len(thrown)]>>
    /\ \A i \in 1..Len(thrown) :
          FinalFailure(i) =>
              /\ i = Len(thrown)
              /\ retryPc = "rejected"
              /\ raised = <<thrown[i]>>

\* C17 (amended): the same for maxRetries >= 1; with maxRetries <= 0 the
\* operation is never invoked and the call rejects with the error made at
\* line 398.
C17_LastErrorPropagated ==
    /\ (maxRetries >= 1 /\ retryPc = "rejected") =>
          /\ Len(thrown) >= 1
          /\ raised = <<thrown[Len(thrown)]>>
          /\ raised[1].origin = "operation"
    /\ (maxRetries <= 0 /\ retryPc = "rejected") =>
          /\ invocations = 0
          /\ raised = <<RetryFailedError>>
    /\ \A i \in 1..Len(thrown) :
          FinalFailure(i) =>
              /\ i = Len(thrown)
              /\ retryPc = "rejected"
              /\ raised = <<thrown[i]>>

\* C17 witness: restricted, maxRetries = 3: a retryable failure, a retry, then
\* a different, non-retryable failure, with which the call rejects.
C17_Witness ==
    /\ retryOnlyParsingErrors
    /\ maxRetries = 3
    /\ retryPc = "rejected"
    /\ Len(thrown) = 2
    /\ thrown[1].value # thrown[2].value
    /\ raised = <<thrown[2]>>

\* the call gave up on the failure of invocation i
GaveUpOn(i) == retryPc = "rejected" /\ Len(thrown) = i /\ raised = <<thrown[i]>>

\* C21: with retryOnlyParsingErrors = false every failure before the last
\* permitted attempt is followed by another attempt, however the error is
\* classified; the operation is invoked at most maxRetries times, and exactly
\* maxRetries times when it fails every time.
C21_UnconditionalRetry ==
    ~retryOnlyParsingErrors =>
        /\ invocations <= Max(maxRetries, 0)
        /\ \A i \in 1..Len(thrown) :
              /\ thrown[i].attempt = i
              /\ i < maxRetries => ~GaveUpOn(i)
        /\ (retryPc = "rejected" /\ maxRetries >= 1) =>
              /\ invocations = maxRetries
              /\ Len(thrown) = maxRetries

\* C21 witness: unrestricted, maxRetries = 3: a failure that is not
\* classified retryable, then a retryable one, then a third: three
\* invocations, and only then the call rejects.
C21_Witness ==
    /\ ~retryOnlyParsingErrors
    /\ maxRetries = 3
    /\ retryPc = "rejected"
    /\ invocations = 3
    /\ ~IsParsingError(thrown[1].value)
    /\ IsParsingError(thrown[2].value)
    /\ Len(sleeps) = 2

\* the classification as the claim states it
ClaimedRetryable(error) ==
    \/ error.isError /\ error.name = Chars_ZodError
    \/ error.marker
    \/ error.isError /\ Includes(error.name, Chars_TimeoutError)

\* C22: isParsingError is true exactly for an Error named "ZodError", a
\* NoObjectGeneratedError instance, and an Error whose name contains
\* "TimeoutError"; and a restricted call goes on after a failure (before its
\* last attempt) exactly when the error is one of these.
C22_Classification ==
    /\ \A error \in ErrorValues : IsParsingError(error) <=> ClaimedRetryable(error)
    /\ retryOnlyParsingErrors =>
          \A i \in 1..Len(thrown) :
              thrown[i].attempt < maxRetries =>
                  (~GaveUpOn(i) <=> ClaimedRetryable(thrown[i].value))

\* C22 witness: a restricted call went on after an Error named
\* "HeadersTimeoutError" and gave up on a value named "TimeoutError" that is
\* not an Error, with an attempt left.
C22_Witness ==
    /\ retryOnlyParsingErrors
    /\ maxRetries = 3
    /\ Len(thrown) = 2
    /\ thrown[1].value =
          [isError |-> TRUE, name |-> Chars_HeadersTimeoutError, marker |-> FALSE]
    /\ thrown[2].value =
          [isError |-> FALSE, name |-> Chars_TimeoutError, marker |-> FALSE]
    /\ GaveUpOn(2)

\* the call has returned or raised
RetryEnded == retryPc \in {"resolved", "rejected"}

\* C25: every suspension lasts exactly delayMs, whatever the attempt number;
\* there is one suspension between two consecutive invocations and no other:
\* none before the first invocation, none after the failure the call raises,
\* so a call that made n >= 1 invocations was suspended n - 1 times.
C25_FixedDelay ==
    /\ \A k \in 1..Len(sleeps) : sleeps[k] = delayMs
    /\ retryPc = "ready" => (Len(sleeps) = invocations /\ attempt = invocations + 1)
    /\ retryPc = "awaiting" => (Len(sleeps) = invocations - 1 /\ attempt = invocations)
    /\ retryPc = "sleeping" => (Len(sleeps) = invocations /\ attempt = invocations)
    /\ (RetryEnded /\ invocations >= 1) => Len(sleeps) = invocations - 1
    /\ invocations = 0 => sleeps = << >>

\* C25 witness: delayMs = 1, maxRetries = 3, three failed invocations: the
\* call was suspended twice, for 1 ms each time, and then raised.
C25_Witness ==
    /\ delayMs = 1
    /\ maxRetries = 3
    /\ retryPc = "rejected"
    /\ invocations = 3
    /\ sleeps = <<1, 1>>

\* the parts of C26 that do not depend on maxRetries being positive: the
\* invocation that fulfils is the last one and its value is returned
StopsAtFirstFulfilment ==
    /\ retryPc \notin {"awaiting", "resolved"} => invocations = Len(thrown)
    /\ retryPc = "awaiting" => invocations = Len(thrown) + 1
    /\ retryPc = "resolved" => (invocations = Len(thrown) + 1 /\ ~ENABLED RetryNext)
    /\ retryPc = "rejected" => ~ENABLED RetryNext

\* C26 (as claimed): for every maxRetries, 0 and negative values included,
\* a call that ended invoked the operation at least once and at most
\* maxRetries times, made no invocation after the one that fulfilled, and
\* any error it raised is one the operation threw.
C26_Original ==
    /\ RetryEnded => (invocations >= 1 /\ invocations <= maxRetries)
    /\ StopsAtFirstFulfilment
    /\ retryPc = "rejected" =>
          /\ raised[1].origin = "operation"
          /\ \E i \in 1..Len(thrown) : raised = <<thrown[i]>>

\* C26 (amended): the same for maxRetries >= 1; with maxRetries <= 0 the
\* operation is not invoked at all and the call raises the error made at
\* line 398, which the operation did not throw.
C26_InvocationBounds ==
    /\ (RetryEnded /\ maxRetries >= 1) =>
          (invocations >= 1 /\ invocations <= maxRetries)
    /\ StopsAtFirstFulfilment
    /\ (retryPc = "rejected" /\ maxRetries >= 1) =>
          /\ raised[1].origin = "operation"
          /\ \E i \in 1..Len(thrown) : raised = <<thrown[i]>>
    /\ maxRetries <= 0 =>
          /\ invocations = 0
          /\ retryPc \in {"ready", "rejected"}
          /\ retryPc = "rejected" => raised = <<RetryFailedError>>

\* C26 witness: maxRetries = 3: two failures, then the third invocation
\* fulfils and the call returns.
C26_Witness ==
    /\ maxRetries = 3
    /\ retryPc = "resolved"
    /\ invocations = 3
    /\ Len(thrown) = 2

\* C30: runTask passes its retryParsingErrors setting, true when not set, as
\* the restriction flag and leaves maxRetries at 3: with the default (or
\* true) a failure is followed by another attempt exactly when it is
\* classified retryable; with false every failure is, whatever the error, up
\* to three invocations in all.
C30_RunTaskRetryFlag ==
    taskSetting # "none" =>
        /\ retryOnlyParsingErrors = (taskSetting # "false")
        /\ maxRetries = 3
        /\ invocations <= 3
        /\ taskSetting # "false" =>
              \A i \in 1..Len(thrown) :
                  i < 3 => (~GaveUpOn(i) <=> IsParsingError(thrown[i].value))
        /\ taskSetting = "false" =>
              /\ \A i \in 1..Len(thrown) : i < 3 => ~GaveUpOn(i)
              /\ retryPc = "rejected" => invocations = 3

\* C30 witness: retryParsingErrors = false: the generation failed three times
\* with errors that are not classified retryable, and only then runTask
\* raised.
C30_Witness ==
    /\ taskSetting = "false"
    /\ retryPc = "rejected"
    /\ invocations = 3
    /\ \A i \in 1..3 : ~IsParsingError(thrown[i].value)
    /\ sleeps = <<1000, 1000>>

(***************************************************************************)
(*                 AsyncRateLimiter (over Bottleneck)                      *)
(***************************************************************************)
JobIds == 1..(MaxJobs + 1)

\* AsyncRateLimiterConfig; the optional minTime is << >> when not given
AsyncConfigs ==
    [maxConcurrent : 0..MaxConcurrentArg,
     intervalCap   : 0..MaxIntervalCap,
     interval      : 0..MaxInterval,
     minTime       : {<< >>, <<0>>, <<MaxMinTime>>}]

\* mutant of ConstructorThrows: minTime = 0 is let through
ConstructorThrowsAllowsZeroMinTime(config) ==
    \/ config.maxConcurrent <= 0
    \/ config.intervalCap < config.maxConcurrent
    \/ config.interval <= 0
    \/ (Len(config.minTime) > 0 /\ config.minTime[1] < 0)

\* lines 35-46: the four validation checks
ConstructorThrows(config) ==
    \/ config.maxConcurrent <= 0
    \/ config.intervalCap < config.maxConcurrent
    \/ config.interval <= 0
    \/ (Len(config.minTime) > 0 /\ config.minTime[1] <= 0)

\* Math.ceil(a / b) for positive integers
CeilDiv(a, b) == (a + b - 1) \div b

\* mutant of OptMaxConcurrent: the interval cap is passed instead
OptMaxConcurrentFromCap(config) == config.intervalCap

\* line 49
OptMaxConcurrent(config) == config.maxConcurrent

\* mutant of OptReservoir: the concurrency limit is passed instead
OptReservoirFromMaxConcurrent(config) == config.maxConcurrent

\* mutant of OptReservoir: the reservoir is created, and refilled, empty
OptReservoirEmpty(config) == 0

\* mutant of OptReservoir: the reservoir holds one token more than intervalCap
OptReservoirOneMore(config) == config.intervalCap + 1

\* lines 52-53
OptReservoir(config) == config.intervalCap

\* line 54
OptReservoirRefreshInterval(config) == config.interval

\* mutant of OptMinTime: the default is rounded down
OptMinTimeFloor(config) ==
    IF Len(config.minTime) > 0 THEN config.minTime[1]
    ELSE config.interval \div config.intervalCap

\* line 57: config.minTime ?? Math.ceil(config.interval / config.intervalCap)
OptMinTime(config) ==
    IF Len(config.minTime) > 0 THEN config.minTime[1]
    ELSE CeilDiv(config.interval, config.intervalCap)

\* lines 48-58: new Bottleneck({...}); running, nextRequest and
\* lastReservoirRefresh are the instance's own bookkeeping
NewLimiter(config, now) ==
    [maxConcurrent            |-> OptMaxConcurrent(config),
     reservoir                |-> OptReservoir(config),
     reservoirRefreshAmount   |-> OptReservoir(config),
     reservoirRefreshInterval |-> OptReservoirRefreshInterval(config),
     minTime                  |-> OptMinTime(config),
     running                  |-> 0,
     nextRequest              |-> now,
     lastReservoirRefresh     |-> now]

\* settlements and the values they carry
Pending        == [status |-> "pending",   value |-> [kind |-> "none",  of |-> 0]]
Fulfilled(v)   == [status |-> "fulfilled", value |-> v]
Rejected(r)    == [status |-> "rejected",  value |-> r]
F(item)        == [kind |-> "value",    of |-> item]
E(item)        == [kind |-> "Error",    of |-> item]
NonError(item) == [kind |-> "nonError", of |-> item]
\* line 109: new Error('Unknown error')
UnknownError   == [kind |-> "Error", of |-> -1]
\* Bottleneck: the BottleneckError (an Error) a stopped limiter rejects with
StoppedError   == [kind |-> "Error", of |-> -2]

\* the ways a processor call can end
Outcomes == {"fulfil", "throwError", "throwNonError"}
OutcomeOf(outcome, arg) ==
    CASE outcome = "fulfil"        -> Fulfilled(F(arg))
      [] outcome = "throwError"    -> Rejected(E(arg))
      [] outcome = "throwNonError" -> Rejected(NonError(arg))

NoJob == [state |-> "none", arg |-> 0, op |-> Pending, result |-> Pending]

\* input arrays of processItems: << >>, <<1>>, <<2, 1>>, <<1, 2, 3>>, ...
InputArray(n, r) == [i \in 1..n |-> ((i - 1 + r) % n) + 1]
BatchInputs == {InputArray(n, (n + 1) % 2) : n \in 0..MaxJobs}

EmptyAccumulator == [successful |-> << >>, failed |-> << >>]

\* the operations' behaviour is an input: any combination of outcomes, or
\* every operation fulfilling, or every operation throwing an Error
AllOutcomes     == {o \in [JobIds -> Outcomes] : o[MaxJobs + 1] = "fulfil"}
UniformOutcomes == {[j \in JobIds |-> o] : o \in {"fulfil", "throwError"}}

\* a configuration whose explicit minTime lets intervalCap operations start in
\* less than one interval (minTime * intervalCap < interval), as in the
\* documented example (intervalCap 20, interval 10000, minTime 200)
BurstConfigs ==
    {[maxConcurrent |-> 1, intervalCap |-> 2, interval |-> 3, minTime |-> <<1>>]}

\* how many operations are submitted and how long the clock runs: one more
\* operation and two more milliseconds under the burst configuration
JobLimit(config)  == IF config \in BurstConfigs THEN MaxJobs + 1 ELSE MaxJobs
TimeLimit(config) ==
    IF config \in BurstConfigs THEN MaxAsyncTime + 2 ELSE MaxAsyncTime

\* the configuration the batch specification runs processItems under
BatchConfigs ==
    {c \in AsyncConfigs : /\ c.maxConcurrent = MaxConcurrentArg
                          /\ c.intervalCap = MaxIntervalCap
                          /\ c.interval = MaxInterval
                          /\ c.minTime = << >>}

AsyncStart(configs, outcomes) ==
    /\ asyncConfig \in configs
    /\ opOutcome \in outcomes
    /\ ctorStatus = "pending"
    /\ limiter = << >>
    /\ asyncNow = 0
    /\ queue = << >>
    /\ jobs = [j \in JobIds |-> NoJob]
    /\ scheduleCalls = 0
    /\ items = << >>
    /\ batchPc = "idle"
    /\ batchJobs = << >>
    /\ batchResult = EmptyAccumulator
    /\ dispatchLog = << >>
    /\ stopPc = "idle"
    /\ settleLog = << >>
    /\ refillCount = 0

AsyncInit == AsyncStart(AsyncConfigs, UniformOutcomes)

BatchInit == AsyncStart(BatchConfigs, AllOutcomes)

BurstInit == AsyncStart(BurstConfigs, UniformOutcomes)

AsyncIdle ==
    /\ asyncConfig = [maxConcurrent |-> 0, intervalCap |-> 0, interval |-> 0,
                      minTime |-> << >>]
    /\ opOutcome = [j \in JobIds |-> "fulfil"]
    /\ ctorStatus = "unused"
    /\ limiter = << >>
    /\ asyncNow = 0
    /\ queue = << >>
    /\ jobs = [j \in JobIds |-> NoJob]
    /\ scheduleCalls = 0
    /\ items = << >>
    /\ batchPc = "unused"
    /\ batchJobs = << >>
    /\ batchResult = EmptyAccumulator
    /\ dispatchLog = << >>
    /\ stopPc = "idle"
    /\ settleLog = << >>
    /\ refillCount = 0

\* lines 33-59: the constructor either throws or creates the Bottleneck
Construct ==
    /\ ctorStatus = "pending"
    /\ IF ConstructorThrows(asyncConfig)
       THEN /\ ctorStatus' = "threw"
            /\ UNCHANGED limiter
       ELSE /\ ctorStatus' = "ready"
            /\ limiter' = <<NewLimiter(asyncConfig, asyncNow)>>
    /\ UNCHANGED <<asyncConfig, opOutcome, asyncNow, queue, jobs, scheduleCalls, items,
                   batchPc, batchJobs, batchResult, dispatchLog,
                   stopPc, settleLog, refillCount>>

\* the jobs in flight: dispatched and not yet settled
InFlight == {j \in JobIds : jobs[j].state = "executing"}

\* mutant of ScheduleReturns: a rejection is replaced by a generic error
ScheduleReturnsRewrapped(settlement) ==
    IF settlement.status = "rejected" THEN Rejected(UnknownError) ELSE settlement

\* line 76: return this.limiter.schedule(fn): the promise schedule() returns
\* settles as the limiter's promise does
ScheduleReturns(settlement) == settlement

\* Bottleneck: a job received by a stopped limiter is rejected at once; any
\* other joins the queue
Received(arg) ==
    IF stopPc = "idle"
    THEN [NoJob EXCEPT !.state = "queued", !.arg = arg]
    ELSE [NoJob EXCEPT !.state = "dropped", !.arg = arg,
                       !.result = ScheduleReturns(Rejected(StoppedError))]

\* mutant of ScheduleAll: the operations are submitted so that they go ahead
\* of those already waiting
ScheduleAllAtFront(args) ==
    /\ scheduleCalls' = scheduleCalls + Len(args)
    /\ queue' = IF stopPc = "idle"
                THEN [i \in 1..Len(args) |-> scheduleCalls + i] \o queue
                ELSE queue
    /\ jobs' = [j \in JobIds |->
                  IF j \in (scheduleCalls + 1)..(scheduleCalls + Len(args))
                  THEN Received(args[j - scheduleCalls])
                  ELSE jobs[j]]

\* lines 75-77 for each element of `args`, in order: the jobs get the next
\* ids and join the queue
ScheduleAll(args) ==
    /\ scheduleCalls' = scheduleCalls + Len(args)
    /\ queue' = IF stopPc = "idle"
                THEN queue \o [i \in 1..Len(args) |-> scheduleCalls + i]
                ELSE queue
    /\ jobs' = [j \in JobIds |->
                  IF j \in (scheduleCalls + 1)..(scheduleCalls + Len(args))
                  THEN Received(args[j - scheduleCalls])
                  ELSE jobs[j]]

\* lines 66-68 and 75-77: one operation submitted through schedule() or
\* through a function returned by wrap()
Schedule ==
    /\ ctorStatus = "ready"
    /\ scheduleCalls < JobLimit(asyncConfig)
    /\ ScheduleAll(<<0>>)
    /\ UNCHANGED <<asyncConfig, opOutcome, ctorStatus, limiter, asyncNow, items, batchPc,
                   batchJobs, batchResult, dispatchLog,
                   stopPc, settleLog, refillCount>>

\* mutant of ItemsMapped: an empty input still schedules one operation
ItemsMappedNeverEmpty(its) == IF Len(its) = 0 THEN <<0>> ELSE its

\* lines 98-100: items.map(item => this.schedule(() => processor(item)))
ItemsMapped(its) == [i \in 1..Len(its) |-> its[i]]

\* lines 97-101: processItems schedules one operation per item, in order,
\* and awaits Promise.allSettled
ProcessItems(its) ==
    /\ ctorStatus = "ready"
    /\ batchPc = "idle"
    /\ scheduleCalls + Len(ItemsMapped(its)) <= JobLimit(asyncConfig)
    /\ ScheduleAll(ItemsMapped(its))
    /\ items' = its
    /\ batchJobs' = [i \in 1..Len(ItemsMapped(its)) |-> scheduleCalls + i]
    /\ batchPc' = "awaiting"
    /\ UNCHANGED <<asyncConfig, opOutcome, ctorStatus, limiter, asyncNow, batchResult,
                   dispatchLog,
                   stopPc, settleLog, refillCount>>

\* spec 4.2, dispatch rule: the operation at the head of the queue is
\* admitted only when (a) fewer than maxConcurrent operations are in flight,
\* (b) the reservoir holds at least one token and (c) at least minTime has
\* elapsed since the previous dispatch
CanDispatch ==
    /\ ctorStatus = "ready"
    /\ Len(queue) > 0
    /\ limiter[1].running < limiter[1].maxConcurrent
    /\ limiter[1].reservoir >= 1
    /\ asyncNow >= limiter[1].nextRequest

\* spec 4.2: the first queued operation is dispatched: it takes a concurrency
\* slot and a reservoir token and is invoked; the next dispatch is due
\* minTime later
Dispatch ==
    /\ CanDispatch
    /\ LET j   == Head(queue)
           lim == limiter[1]
       IN /\ limiter' = <<[lim EXCEPT !.running = @ + 1,
                                      !.reservoir = @ - 1,
                                      !.nextRequest = asyncNow + lim.minTime]>>
          /\ jobs' = [jobs EXCEPT ![j].state = "executing"]
          /\ queue' = Tail(queue)
          /\ dispatchLog' = Append(dispatchLog, [job |-> j, at |-> asyncNow,
                                                  period |-> refillCount])
    /\ UNCHANGED <<asyncConfig, opOutcome, ctorStatus, asyncNow, scheduleCalls, items,
                   batchPc, batchJobs, batchResult,
                   stopPc, settleLog, refillCount>>

\* the operation settles: its concurrency slot is freed, its token is not
\* restored, and the promise returned by schedule() settles the same way
Settle(j) ==
    /\ jobs[j].state = "executing"
    /\ jobs' = [jobs EXCEPT ![j].state = "done",
                            ![j].op = OutcomeOf(opOutcome[j], jobs[j].arg),
                            ![j].result = ScheduleReturns(
                                             OutcomeOf(opOutcome[j], jobs[j].arg))]
    /\ limiter' = <<[limiter[1] EXCEPT !.running = @ - 1]>>
    /\ settleLog' = IF \E i \in 1..Len(batchJobs) : batchJobs[i] = j
                    THEN Append(settleLog, j) ELSE settleLog
    /\ UNCHANGED <<asyncConfig, opOutcome, ctorStatus, asyncNow, queue, scheduleCalls,
                   items, batchPc, batchJobs, batchResult, dispatchLog,
                   stopPc, refillCount>>

RefillDue ==
    /\ ctorStatus = "ready"
    /\ asyncNow >= limiter[1].lastReservoirRefresh
                     + limiter[1].reservoirRefreshInterval

\* Bottleneck: the periodic refresh sets the reservoir to reservoirRefreshAmount
Refill ==
    /\ RefillDue
    /\ limiter' = <<[limiter[1] EXCEPT
                        !.reservoir = limiter[1].reservoirRefreshAmount,
                        !.lastReservoirRefresh = asyncNow]>>
    /\ refillCount' = refillCount + 1
    /\ UNCHANGED <<asyncConfig, opOutcome, ctorStatus, asyncNow, queue, jobs,
                   scheduleCalls, items, batchPc, batchJobs, batchResult,
                   dispatchLog, stopPc, settleLog>>

\* one millisecond passes, once the refill that is due has happened and the
\* queue has been drained as far as the dispatch rule allows
AsyncTick ==
    /\ ctorStatus = "ready"
    /\ asyncNow < TimeLimit(asyncConfig)
    /\ ~RefillDue
    /\ ~CanDispatch
    /\ asyncNow' = asyncNow + 1
    /\ UNCHANGED <<asyncConfig, opOutcome, ctorStatus, limiter, queue, jobs,
                   scheduleCalls, items, batchPc, batchJobs, batchResult,
                   dispatchLog,
                   stopPc, settleLog, refillCount>>

\* spec 4.2 stop(): the queued-but-not-yet-dispatched work
Waiting == {j \in JobIds : jobs[j].state = "queued"}

\* mutant of StopOptions: stop is asked to let the waiting jobs run
StopOptionsKeepWaiting == [dropWaitingJobs |-> FALSE]

\* line 120: this.limiter.stop() is called without options, so Bottleneck's
\* default applies: the waiting jobs are dropped
StopOptions == [dropWaitingJobs |-> TRUE]

\* lines 119-120: this.limiter.stop(): the waiting jobs are dropped, their
\* promises reject with the limiter's stopped error; the operations being
\* executed go on
Stop ==
    /\ ctorStatus = "ready"
    /\ stopPc = "idle"
    /\ stopPc' = "draining"
    /\ queue' = IF StopOptions.dropWaitingJobs THEN << >> ELSE queue
    /\ jobs' = [j \in JobIds |->
                  IF StopOptions.dropWaitingJobs /\ j \in Waiting
                  THEN [jobs[j] EXCEPT !.state = "dropped",
                           !.result = ScheduleReturns(Rejected(StoppedError))]
                  ELSE jobs[j]]
    /\ UNCHANGED <<asyncConfig, opOutcome, ctorStatus, limiter, asyncNow,
                   scheduleCalls, items, batchPc, batchJobs, batchResult,
                   dispatchLog, settleLog, refillCount>>

\* the operations being executed
Executing == {j \in JobIds : jobs[j].state = "executing"}

\* mutant of StopAwaitsLimiter: the limiter's promise is not awaited
StopReturnsAtOnce == FALSE

\* line 120: `await` this.limiter.stop()
StopAwaitsLimiter == TRUE

\* line 120: await this.limiter.stop() resolves once no job is waiting or
\* being executed any more
StopReturn ==
    /\ stopPc = "draining"
    /\ StopAwaitsLimiter => (Executing = {} /\ Waiting = {})
    /\ stopPc' = "stopped"
    /\ UNCHANGED <<asyncConfig, opOutcome, ctorStatus, limiter, asyncNow, queue,
                   jobs, scheduleCalls, items, batchPc, batchJobs, batchResult,
                   dispatchLog, settleLog, refillCount>>

\* the configurations the constructor accepts
LiveConfigs == {c \in AsyncConfigs : ~ConstructorThrows(c)}

LiveInit == AsyncStart(LiveConfigs, UniformOutcomes)

\* time enough for every operation submitted by TimeLimit to be invoked
LiveHorizon == (MaxJobs + 1) * (MaxInterval + MaxMinTime)

\* an operation is waiting for the clock: for its minTime delay, or for the
\* refill of an empty reservoir
WaitingForClock ==
    /\ Len(queue) > 0
    /\ limiter[1].running < limiter[1].maxConcurrent
    /\ \/ limiter[1].reservoir = 0
       \/ asyncNow < limiter[1].nextRequest

\* one millisecond passes (as AsyncTick); past TimeLimit the clock is
\* followed only while an operation is waiting for it
LiveTick ==
    /\ ctorStatus = "ready"
    /\ \/ asyncNow < TimeLimit(asyncConfig)
       \/ WaitingForClock /\ asyncNow < TimeLimit(asyncConfig) + LiveHorizon
    /\ ~RefillDue
    /\ ~CanDispatch
    /\ asyncNow' = asyncNow + 1
    /\ UNCHANGED <<asyncConfig, opOutcome, ctorStatus, limiter, queue, jobs,
                   scheduleCalls, items, batchPc, batchJobs, batchResult,
                   dispatchLog, stopPc, settleLog, refillCount>>

\* mutant of ReduceStep: a rejection whose reason is no Error is dropped
ReduceStepDropsNonError(acc, result, its, index) ==
    IF result.status = "fulfilled"
    THEN [acc EXCEPT !.successful = Append(@, result.value)]
    ELSE IF result.value.kind = "Error"
         THEN [acc EXCEPT !.failed =
                  Append(@, [item |-> its[index], error |-> result.value])]
         ELSE acc

\* mutant of ReduceStep: a failure is paired with the first item
ReduceStepFirstItem(acc, result, its, index) ==
    IF result.status = "fulfilled"
    THEN [acc EXCEPT !.successful = Append(@, result.value)]
    ELSE [acc EXCEPT !.failed =
             Append(@, [item  |-> its[1],
                        error |-> IF result.value.kind = "Error"
                                  THEN result.value ELSE UnknownError])]

\* lines 104-112: one step of the reduce
ReduceStep(acc, result, its, index) ==
    IF result.status = "fulfilled"
    THEN [acc EXCEPT !.successful = Append(@, result.value)]
    ELSE [acc EXCEPT !.failed =
             Append(@, [item  |-> its[index],
                        error |-> IF result.value.kind = "Error"
                                  THEN result.value ELSE UnknownError])]

\* lines 103-113: results.reduce(..., { successful: [], failed: [] })
RECURSIVE ReduceFrom(_, _, _, _)
ReduceFrom(results, its, index, acc) ==
    IF index > Len(results) THEN acc
    ELSE ReduceFrom(results, its, index + 1,
                    ReduceStep(acc, results[index], its, index))

\* mutant of SettledResults: the entries come in the order the operations
\* settled
SettledResultsAsCompleted ==
    [k \in 1..Len(settleLog) |-> jobs[settleLog[k]].result]

\* the array Promise.allSettled resolves to: one entry per scheduled promise,
\* at the index of its item
SettledResults == [i \in 1..Len(batchJobs) |-> jobs[batchJobs[i]].result]

\* mutant of AllSettled: the wait ends at the first rejection (Promise.all)
AllSettledOrOneRejected ==
    \/ \A i \in 1..Len(batchJobs) : jobs[batchJobs[i]].result.status # "pending"
    \/ \E i \in 1..Len(batchJobs) : jobs[batchJobs[i]].result.status = "rejected"

\* line 97: await Promise.allSettled(...)
AllSettled ==
    \A i \in 1..Len(batchJobs) : jobs[batchJobs[i]].result.status # "pending"

\* lines 97-113: every promise settled; processItems resolves to the reduce
BatchReturn ==
    /\ batchPc = "awaiting"
    /\ AllSettled
    /\ batchResult' = ReduceFrom(SettledResults, items, 1, EmptyAccumulator)
    /\ batchPc' = "returned"
    /\ UNCHANGED <<asyncConfig, opOutcome, ctorStatus, limiter, asyncNow, queue, jobs,
                   scheduleCalls, items, batchJobs, dispatchLog,
                   stopPc, settleLog, refillCount>>

AsyncNext ==
    \/ Construct /\ UNCHANGED otherThanAsync
    \/ Schedule /\ UNCHANGED otherThanAsync
    \/ \E its \in BatchInputs : ProcessItems(its) /\ UNCHANGED otherThanAsync
    \/ Dispatch /\ UNCHANGED otherThanAsync
    \/ \E j \in JobIds : Settle(j) /\ UNCHANGED otherThanAsync
    \/ Refill /\ UNCHANGED otherThanAsync
    \/ AsyncTick /\ UNCHANGED otherThanAsync
    \/ BatchReturn /\ UNCHANGED otherThanAsync

\* processItems alone: no operation is submitted outside the batch
BatchNext ==
    \/ Construct /\ UNCHANGED otherThanAsync
    \/ \E its \in BatchInputs : ProcessItems(its) /\ UNCHANGED otherThanAsync
    \/ Dispatch /\ UNCHANGED otherThanAsync
    \/ \E j \in JobIds : Settle(j) /\ UNCHANGED otherThanAsync
    \/ Refill /\ UNCHANGED otherThanAsync
    \/ AsyncTick /\ UNCHANGED otherThanAsync
    \/ BatchReturn /\ UNCHANGED otherThanAsync

\* operations submitted one by one through schedule() or a wrapped function
BurstNext ==
    \/ Construct /\ UNCHANGED otherThanAsync
    \/ Schedule /\ UNCHANGED otherThanAsync
    \/ Dispatch /\ UNCHANGED otherThanAsync
    \/ \E j \in JobIds : Settle(j) /\ UNCHANGED otherThanAsync
    \/ Refill /\ UNCHANGED otherThanAsync
    \/ AsyncTick /\ UNCHANGED otherThanAsync

\* processItems on a limiter that stop() may be called on at any moment
ShutdownNext ==
    \/ Construct /\ UNCHANGED otherThanAsync
    \/ \E its \in BatchInputs : ProcessItems(its) /\ UNCHANGED otherThanAsync
    \/ Dispatch /\ UNCHANGED otherThanAsync
    \/ \E j \in JobIds : Settle(j) /\ UNCHANGED otherThanAsync
    \/ Refill /\ UNCHANGED otherThanAsync
    \/ AsyncTick /\ UNCHANGED otherThanAsync
    \/ BatchReturn /\ UNCHANGED otherThanAsync
    \/ Stop /\ UNCHANGED otherThanAsync
    \/ StopReturn /\ UNCHANGED otherThanAsync

\* a limiter on which stop() is never called; a batch is submitted through
\* processItems by TimeLimit and the clock runs until every operation has had
\* its turn
LiveNext ==
    \/ Construct /\ UNCHANGED otherThanAsync
    \/ \E its \in BatchInputs :
          /\ asyncNow <= TimeLimit(asyncConfig)
          /\ ProcessItems(its)
          /\ UNCHANGED otherThanAsync
    \/ Dispatch /\ UNCHANGED otherThanAsync
    \/ \E j \in JobIds : Settle(j) /\ UNCHANGED otherThanAsync
    \/ Refill /\ UNCHANGED otherThanAsync
    \/ LiveTick /\ UNCHANGED otherThanAsync
    \/ BatchReturn /\ UNCHANGED otherThanAsync

\* the event loop runs every timer that is due and every continuation that is
\* ready, time passes, and every operation invoked settles
LiveFairness ==
    /\ WF_vars(Construct /\ UNCHANGED otherThanAsync)
    /\ WF_vars(Dispatch /\ UNCHANGED otherThanAsync)
    /\ \A j \in JobIds : WF_vars(Settle(j) /\ UNCHANGED otherThanAsync)
    /\ WF_vars(Refill /\ UNCHANGED otherThanAsync)
    /\ WF_vars(LiveTick /\ UNCHANGED otherThanAsync)
    /\ WF_vars(BatchReturn /\ UNCHANGED otherThanAsync)

\* C2: at most maxConcurrent operations are dispatched and not yet settled.
C2_ConcurrencyBounded ==
    ctorStatus = "ready" =>
        Cardinality(InFlight) <= asyncConfig.maxConcurrent

\* C2 witness: maxConcurrent >= 2 operations are in flight, one of them being
\* executed, while another waits in the queue although the reservoir holds a
\* token.
C2_Witness ==
    /\ ctorStatus = "ready"
    /\ asyncConfig.maxConcurrent >= 2
    /\ Cardinality(InFlight) = asyncConfig.maxConcurrent
    /\ \E j \in InFlight : jobs[j].state = "executing"
    /\ Len(queue) > 0
    /\ limiter[1].reservoir >= 1

\* the range of a sequence
Range(seq) == {seq[i] : i \in 1..Len(seq)}

\* C4: the result of processItems has one outcome per item:
\* len(successful) + len(failed) = len(items).
C4_OneOutcomePerItem ==
    batchPc = "returned" =>
        Len(batchResult.successful) + Len(batchResult.failed) = Len(items)

\* C4 witness: a batch of three items returned with both lists non-empty and
\* a rejection whose reason is not an Error.
C4_Witness ==
    /\ batchPc = "returned"
    /\ Len(items) = 3
    /\ Len(batchResult.successful) > 0
    /\ Len(batchResult.failed) > 0
    /\ \E i \in 1..Len(items) : opOutcome[batchJobs[i]] = "throwNonError"

\* C5: when processItems returns, every item's processor was run whatever the
\* others did; every value a processor fulfilled with is in successful; and
\* failed holds exactly the items whose processor rejected, once each.
C5_FailuresAreIsolated ==
    batchPc = "returned" =>
        /\ \A i \in 1..Len(items) :
              LET j == batchJobs[i] IN
              /\ \E k \in 1..Len(dispatchLog) : dispatchLog[k].job = j
              /\ jobs[j].op.status \in {"fulfilled", "rejected"}
              /\ jobs[j].op.status = "fulfilled" =>
                    F(items[i]) \in Range(batchResult.successful)
              /\ jobs[j].op.status = "rejected" <=>
                    \E k \in 1..Len(batchResult.failed) :
                        batchResult.failed[k].item = items[i]
        /\ Len(batchResult.failed) =
              Cardinality({i \in 1..Len(items) :
                              jobs[batchJobs[i]].op.status = "rejected"})
        /\ (/\ items = <<1, 2, 3>>
            /\ \A i \in 1..3 : opOutcome[batchJobs[i]] =
                                  IF i = 2 THEN "throwError" ELSE "fulfil")
           => /\ batchResult.successful = <<F(1), F(3)>>
              /\ batchResult.failed = <<[item |-> 2, error |-> E(2)]>>

\* C5 witness: items [1,2,3], only item 2 rejects: successful = [f(1), f(3)]
\* and failed = [{item: 2, error: E}].
C5_Witness ==
    /\ batchPc = "returned"
    /\ items = <<1, 2, 3>>
    /\ \A i \in 1..3 : opOutcome[batchJobs[i]] =
                          IF i = 2 THEN "throwError" ELSE "fulfil"
    /\ batchResult.successful = <<F(1), F(3)>>
    /\ batchResult.failed = <<[item |-> 2, error |-> E(2)]>>

\* the configurations the constructor is documented to accept
ValidConfig(config) ==
    /\ config.maxConcurrent > 0
    /\ config.intervalCap >= config.maxConcurrent
    /\ config.interval > 0
    /\ \A i \in 1..Len(config.minTime) : config.minTime[i] > 0

\* C8: for every configuration that violates one of the four rules the
\* constructor throws and no scheduler exists (nor is any work accepted).
C8_InvalidConfigRejected ==
    (ctorStatus # "pending" /\ ~ValidConfig(asyncConfig)) =>
        /\ ctorStatus = "threw"
        /\ limiter = << >>
        /\ scheduleCalls = 0

\* C8 witness: construction threw for a configuration whose only fault is
\* minTime = 0.
C8_Witness ==
    /\ ctorStatus = "threw"
    /\ limiter = << >>
    /\ asyncConfig.maxConcurrent > 0
    /\ asyncConfig.intervalCap >= asyncConfig.maxConcurrent
    /\ asyncConfig.interval > 0
    /\ asyncConfig.minTime = <<0>>

\* minTime as the claim states it: the configured value, or the least whole
\* number of milliseconds m with m * intervalCap >= interval
ClaimedMinTime(config) ==
    IF config.minTime # << >> THEN config.minTime[1]
    ELSE CHOOSE m \in 0..config.interval :
            /\ m * config.intervalCap >= config.interval
            /\ (m - 1) * config.intervalCap < config.interval

\* C9: two operations dispatched one after the other are invoked at least
\* minTime apart.
C9_MinTimeBetweenDispatches ==
    \A k \in 2..Len(dispatchLog) :
        dispatchLog[k].at - dispatchLog[k - 1].at >= ClaimedMinTime(asyncConfig)

\* C9 witness: with minTime derived from an interval that intervalCap does
\* not divide, two consecutive dispatches are exactly minTime apart and the
\* second is invoked while the first is still running.
C9_Witness ==
    /\ ctorStatus = "ready"
    /\ asyncConfig.minTime = << >>
    /\ asyncConfig.interval % asyncConfig.intervalCap # 0
    /\ Len(dispatchLog) >= 2
    /\ dispatchLog[2].at - dispatchLog[1].at = ClaimedMinTime(asyncConfig)
    /\ jobs[dispatchLog[1].job].state = "executing"
    /\ jobs[dispatchLog[2].job].state = "executing"

\* C10: processItems([]) calls schedule for nothing (the queue, the jobs, the
\* reservoir and the in-flight count are left as they are) and resolves to
\* {successful: [], failed: []}.
C10_EmptyInputNoScheduling ==
    [][/\ (batchPc = "idle" /\ batchPc' = "awaiting" /\ items' = << >>) =>
            /\ scheduleCalls' = scheduleCalls
            /\ queue' = queue
            /\ jobs' = jobs
            /\ limiter' = limiter
            /\ batchJobs' = << >>
       /\ (batchPc = "awaiting" /\ batchPc' = "returned" /\ items = << >>) =>
            /\ batchResult' = [successful |-> << >>, failed |-> << >>]
            /\ scheduleCalls' = scheduleCalls
            /\ queue' = queue
            /\ jobs' = jobs
            /\ limiter' = limiter
       /\ (batchPc = "awaiting" /\ items = << >>) => ENABLED BatchReturn
      ]_vars

\* C10 witness: processItems([]) returned {[], []} while other operations
\* were queued and in flight.
C10_Witness ==
    /\ batchPc = "returned"
    /\ items = << >>
    /\ batchResult = [successful |-> << >>, failed |-> << >>]
    /\ Len(queue) > 0
    /\ Cardinality(InFlight) > 0

\* the index, in the input array, of the item job j was scheduled for
IndexOf(j) == CHOOSE i \in 1..Len(batchJobs) : batchJobs[i] = j

\* the indices whose promise settled with `status`, in input order
SubmissionOrder(status) ==
    SelectSeq([i \in 1..Len(batchJobs) |-> i],
              LAMBDA i : jobs[batchJobs[i]].result.status = status)

\* the indices whose operation settled with `status`, in the order the
\* operations completed
CompletionOrder(status) ==
    SelectSeq([k \in 1..Len(settleLog) |-> IndexOf(settleLog[k])],
              LAMBDA i : jobs[batchJobs[i]].result.status = status)

\* the values, and the items, of the indices in `order`
ValuesIn(order) == [k \in 1..Len(order) |-> jobs[batchJobs[order[k]]].result.value]
ItemsIn(order)  == [k \in 1..Len(order) |-> items[order[k]]]
FailedItems     == [k \in 1..Len(batchResult.failed) |-> batchResult.failed[k].item]

\* C11 (as claimed): the entries of successful, and those of failed, are in
\* the order in which their operations completed.
C11_Original ==
    batchPc = "returned" =>
        /\ batchResult.successful = ValuesIn(CompletionOrder("fulfilled"))
        /\ FailedItems = ItemsIn(CompletionOrder("rejected"))

\* C11 (amended): the entries of successful, and those of failed, are in the
\* order of their items in the input array, whatever the order in which the
\* operations completed.
C11_SubmissionOrder ==
    batchPc = "returned" =>
        /\ batchResult.successful = ValuesIn(SubmissionOrder("fulfilled"))
        /\ FailedItems = ItemsIn(SubmissionOrder("rejected"))

\* C11 witness: items [1,2,3] all fulfilled, the operation of a later item
\* completed before that of an earlier one, and successful is [f(1),f(2),f(3)].
C11_Witness ==
    /\ batchPc = "returned"
    /\ items = <<1, 2, 3>>
    /\ \E k \in 2..Len(settleLog) : settleLog[k] < settleLog[k - 1]
    /\ batchResult.successful = <<F(1), F(2), F(3)>>

\* the jobs whose operation has been invoked
Dispatched == {dispatchLog[k].job : k \in 1..Len(dispatchLog)}

\* C12: the promise schedule() returned for a dispatched operation is pending
\* while the operation runs and then settles exactly as the operation did:
\* same status, same value or error.
C12_OutcomePreserved ==
    \A j \in Dispatched :
        /\ jobs[j].op.status = "pending" => jobs[j].result = Pending
        /\ jobs[j].op.status # "pending" =>
              /\ jobs[j].op = OutcomeOf(opOutcome[j], jobs[j].arg)
              /\ jobs[j].result = jobs[j].op

\* C12 witness: of three dispatched operations one fulfilled, one threw an
\* Error and one threw a value that is no Error, and each promise settled
\* with exactly that.
C12_Witness ==
    /\ \E j \in Dispatched : jobs[j].result = Fulfilled(F(jobs[j].arg))
    /\ \E j \in Dispatched : jobs[j].result = Rejected(E(jobs[j].arg))
    /\ \E j \in Dispatched : jobs[j].result = Rejected(NonError(jobs[j].arg))

\* C13: once stop() has been invoked every submitted operation that had not
\* been started is never started (no operation is invoked any more) and its
\* promise is rejected with the limiter's stopped error, not pending.
C13_QueuedWorkAbandoned ==
    /\ [](stopPc # "idle" =>
            \A j \in JobIds \ Dispatched :
                jobs[j].state # "none" =>
                    /\ jobs[j].state = "dropped"
                    /\ jobs[j].op = Pending
                    /\ jobs[j].result = Rejected(StoppedError))
    /\ [][stopPc # "idle" => dispatchLog' = dispatchLog]_vars

\* C13 witness: stop() returned for a limiter on which a batch of three was
\* under way: the first operation had been started, the third had not, and
\* its promise is rejected with the stopped error.
C13_Witness ==
    /\ stopPc = "stopped"
    /\ Len(batchJobs) = 3
    /\ batchJobs[1] \in Dispatched
    /\ batchJobs[3] \notin Dispatched
    /\ jobs[batchJobs[3]].op = Pending
    /\ jobs[batchJobs[3]].result = Rejected(StoppedError)

\* C14: after stop() every operation that had been started is still being
\* executed (and can complete) or has completed with its promise settled as
\* the operation did, never dropped; and stop() has returned only if none of
\* them is still being executed.
C14_InFlightRunToCompletion ==
    stopPc # "idle" =>
        \A j \in Dispatched :
            /\ jobs[j].state \in {"executing", "done"}
            /\ jobs[j].state = "executing" =>
                  /\ jobs[j].result = Pending
                  /\ ENABLED Settle(j)
                  /\ stopPc = "draining"
            /\ jobs[j].state = "done" =>
                  jobs[j].result = OutcomeOf(opOutcome[j], jobs[j].arg)

\* C14 witness: stop() has been invoked and has not returned: one operation
\* of the batch is still being executed, an earlier one has completed with
\* its own error, and a later one was dropped.
C14_Witness ==
    /\ stopPc = "draining"
    /\ Len(batchJobs) = 3
    /\ jobs[batchJobs[1]].result = Rejected(E(items[1]))
    /\ jobs[batchJobs[2]].state = "executing"
    /\ jobs[batchJobs[3]].state = "dropped"

\* C16: processItems always ends by fulfilling with a {successful, failed}
\* object: it returns as soon as every promise is settled, which a stopped
\* limiter guarantees too; the object accounts for every item, its failed
\* entries carry Errors, and a refusal by the stopped limiter is one of them.
C16_NeverRejects ==
    /\ batchPc \in {"idle", "awaiting", "returned"}
    /\ (batchPc = "awaiting" /\ AllSettled) => ENABLED BatchReturn
    /\ (batchPc = "awaiting" /\ stopPc = "stopped") => AllSettled
    /\ batchPc = "returned" =>
          /\ DOMAIN batchResult = {"successful", "failed"}
          /\ \A i \in 1..Len(batchJobs) :
                jobs[batchJobs[i]].result.status \in {"fulfilled", "rejected"}
          /\ Len(batchResult.successful) + Len(batchResult.failed) = Len(items)
          /\ \A k \in 1..Len(batchResult.failed) :
                batchResult.failed[k].error.kind = "Error"
          /\ \A i \in 1..Len(batchJobs) :
                jobs[batchJobs[i]].state = "dropped" =>
                    [item |-> items[i], error |-> StoppedError]
                        \in Range(batchResult.failed)

\* C16 witness: items [1,2,3]; the first fulfilled, the second threw, the
\* third was refused because the limiter was stopped; processItems returned
\* successful = [f(1)] and failed = [{2, E}, {3, stopped error}].
C16_Witness ==
    /\ batchPc = "returned"
    /\ stopPc # "idle"
    /\ items = <<1, 2, 3>>
    /\ batchResult.successful = <<F(1)>>
    /\ batchResult.failed = <<[item |-> 2, error |-> E(2)],
                              [item |-> 3, error |-> StoppedError]>>

\* C18: operations are dispatched in the order they were submitted: job ids
\* count the submissions, processItems submits its items in input order, and
\* the k-th operation invoked is the k-th submitted.
C18_FifoDispatch ==
    /\ \A k \in 1..Len(dispatchLog) : dispatchLog[k].job = k
    /\ \A i \in 2..Len(batchJobs) : batchJobs[i] = batchJobs[i - 1] + 1
    /\ \A i \in 2..Len(queue) : queue[i - 1] < queue[i]

\* C18 witness: one operation submitted through schedule(), then two through
\* processItems; the first two were invoked, in that order, while the third
\* was still waiting in the queue.
C18_Witness ==
    /\ batchJobs = <<2, 3>>
    /\ Len(dispatchLog) = 2
    /\ dispatchLog[1].job = 1
    /\ dispatchLog[2].job = 2
    /\ queue = <<3>>

\* the operations dispatched after the p-th refill and before the next one
DispatchesInPeriod(p) ==
    {k \in 1..Len(dispatchLog) : dispatchLog[k].period = p}

\* C19: between two consecutive refills of the reservoir at most intervalCap
\* operations are dispatched, however many are queued and however quickly
\* they complete.
C19_CapPerRefillPeriod ==
    ctorStatus = "ready" =>
        \A p \in 1..refillCount :
            Cardinality(DispatchesInPeriod(p)) <= asyncConfig.intervalCap

\* C19 witness: since the last refill intervalCap = 2 operations were
\* dispatched and have completed; a third waits in the queue with a free
\* concurrency slot and minTime elapsed, held back by the empty reservoir
\* alone.
C19_Witness ==
    /\ ctorStatus = "ready"
    /\ refillCount >= 1
    /\ asyncConfig.intervalCap = 2
    /\ Cardinality(DispatchesInPeriod(refillCount)) = 2
    /\ \A k \in DispatchesInPeriod(refillCount) :
          jobs[dispatchLog[k].job].state = "done"
    /\ Len(queue) > 0
    /\ limiter[1].running < limiter[1].maxConcurrent
    /\ asyncNow >= limiter[1].nextRequest
    /\ limiter[1].reservoir = 0

\* the kinds of step the reservoir claim speaks of
StepConstructs == ctorStatus = "pending" /\ ctorStatus' = "ready"
StepOfLimiter  == ctorStatus = "ready" /\ ctorStatus' = "ready"
StepDispatches == StepOfLimiter /\ dispatchLog' # dispatchLog
StepCompletes  == StepOfLimiter /\ \E j \in JobIds : /\ jobs[j].state = "executing"
                                                     /\ jobs'[j].state = "done"
StepRefills    == StepOfLimiter /\ refillCount' # refillCount
StepLowers     == StepOfLimiter /\ limiter'[1].reservoir < limiter[1].reservoir
StepRaises     == StepOfLimiter /\ limiter'[1].reservoir > limiter[1].reservoir
TakesOneToken  == /\ limiter[1].reservoir >= 1
                  /\ limiter'[1].reservoir = limiter[1].reservoir - 1

\* C20: the reservoir starts at intervalCap, goes down by exactly one at each
\* dispatch and only then, is unchanged by completions, goes up only by the
\* refill, which sets it to intervalCap, stays within 0..intervalCap, and no
\* operation is dispatched while it is 0.
C20_ReservoirAccounting ==
    /\ [](ctorStatus = "ready" =>
            limiter[1].reservoir \in 0..asyncConfig.intervalCap)
    /\ [][/\ StepConstructs => (limiter'[1].reservoir = asyncConfig.intervalCap)
          /\ StepDispatches => TakesOneToken
          /\ StepLowers => StepDispatches
          /\ StepCompletes => (limiter'[1].reservoir = limiter[1].reservoir)
          /\ StepRaises => StepRefills
          /\ StepRefills => (limiter'[1].reservoir = asyncConfig.intervalCap)
         ]_vars

\* C20 witness: with intervalCap = 2 and one refill behind it, the reservoir
\* is empty again: one operation has completed without restoring its token,
\* another, dispatched with the last token, is still executing, and a third
\* waits in the queue.
C20_Witness ==
    /\ ctorStatus = "ready"
    /\ asyncConfig.intervalCap = 2
    /\ refillCount >= 1
    /\ limiter[1].reservoir = 0
    /\ \E j \in JobIds : jobs[j].state = "done"
    /\ \E j \in JobIds : jobs[j].state = "executing"
    /\ Len(queue) > 0

\* C24: every entry of failed names an input item whose own processor call
\* rejected, and carries that call's rejection reason itself when the reason
\* is an Error, a generic Error('Unknown error') when it is not.
C24_FailedEntries ==
    batchPc = "returned" =>
        \A k \in 1..Len(batchResult.failed) :
            LET entry == batchResult.failed[k] IN
            /\ DOMAIN entry = {"item", "error"}
            /\ \E i \in 1..Len(items) : items[i] = entry.item
            /\ \A i \in 1..Len(items) :
                  items[i] = entry.item =>
                      LET op == jobs[batchJobs[i]].op IN
                      /\ op.status = "rejected"
                      /\ op.value.of = entry.item
                      /\ op.value.kind = "Error" => entry.error = op.value
                      /\ op.value.kind # "Error" => entry.error = UnknownError

\* C24 witness: items [1,2,3]: the processor of 2 threw an Error and that of
\* 3 threw a value that is no Error: failed = [{2, that Error}, {3, Error(
\* 'Unknown error')}].
C24_Witness ==
    /\ batchPc = "returned"
    /\ items = <<1, 2, 3>>
    /\ jobs[batchJobs[3]].op = Rejected(NonError(3))
    /\ batchResult.successful = <<F(1)>>
    /\ batchResult.failed = <<[item |-> 2, error |-> E(2)],
                              [item |-> 3, error |-> UnknownError]>>

\* C29: when stop() is never called and every operation invoked settles,
\* every operation submitted is eventually invoked, its promise eventually
\* settles, and processItems eventually returns.
C29_EventuallySettled ==
    /\ \A j \in JobIds :
          (jobs[j].state = "queued") ~>
              (j \in Dispatched /\ jobs[j].result.status # "pending")
    /\ (batchPc = "awaiting") ~> (batchPc = "returned")

\* C29 witness: intervalCap = 1: a batch of three emptied the reservoir with
\* its first operation, the other two were invoked after refills, and
\* processItems returned.
C29_Witness ==
    /\ asyncConfig.intervalCap = 1
    /\ Len(items) = 3
    /\ batchPc = "returned"
    /\ refillCount >= 2
    /\ \A i \in 1..3 : batchJobs[i] \in Dispatched
    /\ \E k \in 1..Len(dispatchLog) : dispatchLog[k].period >= 2

RetrySpecInit == RetryInit /\ SyncIdle /\ AsyncIdle

RetrySpec == RetrySpecInit /\ [][RetryNext]_vars

RunTaskSpecInit == RunTaskInit /\ SyncIdle /\ AsyncIdle

RunTaskSpec == RunTaskSpecInit /\ [][RunTaskNext]_vars

(***************************************************************************)
(* Specifications: one per component (the other components idle), and Spec, *)
(* which starts any one of them.                                            *)
(***************************************************************************)
SyncSpecInit == SyncInit /\ RetryIdle /\ AsyncIdle

SyncSpec == SyncSpecInit /\ [][SyncNext]_vars

ConcurrentSpec == SyncSpecInit /\ [][ConcurrentNext]_vars

AsyncSpecInit == AsyncInit /\ SyncIdle /\ RetryIdle

AsyncSpec == AsyncSpecInit /\ [][AsyncNext]_vars

BatchSpecInit == BatchInit /\ SyncIdle /\ RetryIdle

BatchSpec == BatchSpecInit /\ [][BatchNext]_vars

BurstSpecInit == BurstInit /\ SyncIdle /\ RetryIdle

BurstSpec == BurstSpecInit /\ [][BurstNext]_vars

ShutdownSpecInit == BatchInit /\ SyncIdle /\ RetryIdle

ShutdownSpec == ShutdownSpecInit /\ [][ShutdownNext]_vars

LiveSpecInit == LiveInit /\ SyncIdle /\ RetryIdle

LiveSpec == LiveSpecInit /\ [][LiveNext]_vars /\ LiveFairness

Init == SyncSpecInit \/ RetrySpecInit \/ AsyncSpecInit \/ BatchSpecInit

Next ==
    \/ (retryPc = "unused" /\ ctorStatus = "unused" /\ SyncNext)
    \/ (retryPc # "unused" /\ RetryNext)
    \/ (ctorStatus # "unused" /\ AsyncNext)

Spec == Init /\ [][Next]_vars

=============================================================================
